---- MODULE Spec2Model ----
(***************************************************************************)
(* The SelectManager of codex (tree/managers/select_manager.go): a builder *)
(* that owns a SelectStatement tree, mutates it through chained calls and  *)
(* hands it to a visitor of the VISITORS registry in ToSql.                *)
(*                                                                         *)
(* Two managers, a (1) and b (2), each made by Selection over its own      *)
(* relation.  Pointers are modelled by identity: a statement is named by   *)
(* the manager that created it, a core by (statement, index in Cores).     *)
(* The nodes package, the Accessor type, the VISITORS registry and the     *)
(* visitors are not part of the sources at hand; they are modelled from    *)
(* the specification (sections 3, 4.2 and 4.3).                            *)
(***************************************************************************)
EXTENDS Integers, Sequences, FiniteSets, TLC

VARIABLES
  VISITORS,  \* the registry: the set of engine keys that have a visitor
  Tree,      \* Tree[m]: the SelectStatementNode that manager m's Tree points to
  Context,   \* Context[m]: the core manager m's Context points to
  engine,    \* engine[m]: the manager's engine field, NoEngine for nil
  result,    \* what the last call returned
  last,      \* the last call: receiver, method, arguments, and the arguments
             \* of the call before it when that was the same method of the
             \* same manager (NoCall otherwise)
  nops,      \* number of calls made so far
  statement, \* the librarian SelectStatement: projections, filters, joins,
             \* session and limit
  returned   \* what the last method of the librarian SelectStatement returned

vars == <<VISITORS, Tree, Context, engine, result, last, nops, statement,
          returned>>

\* Number of calls in a run.
MaxOps == 3

Managers == {1, 2}

----------------------------------------------------------------------------
(* Nodes.  Every value is a record with a type field; nil is one of them.  *)

Nil == [type |-> "nil"]

Str(s) == [type |-> "string", Value |-> s]

IntVal(n) == [type |-> "int", Value |-> n]

IsString(x) == x.type = "string"

RelationNode(name) == [type |-> "Relation", Name |-> name]

ColumnNode(name) == [type |-> "Column", Name |-> name]

StarNode == [type |-> "Star"]

AttributeNode(name, relation) ==
  [type |-> "Attribute", Name |-> name, Relation |-> relation]

LiteralNode(value) == [type |-> "Literal", Value |-> value.Value]

GroupingNode(expr) == [type |-> "Grouping", Expr |-> expr]

OffsetNode(skip) == [type |-> "Offset", Expr |-> skip]

LimitNode(take) == [type |-> "Limit", Expr |-> take]

InnerJoinNode(left, right) == [type |-> "InnerJoin", Left |-> left, Right |-> right]

OuterJoinNode(left, right) == [type |-> "OuterJoin", Left |-> left, Right |-> right]

OnNode(expr) == [type |-> "On", Expr |-> expr]

HavingNode(expr) == [type |-> "Having", Expr |-> expr]

\* The operands of a combinator are pointers to statements.
UnionNode(left, right) == [type |-> "Union", Left |-> left, Right |-> right]

IntersectNode(left, right) == [type |-> "Intersect", Left |-> left, Right |-> right]

ExceptNode(left, right) == [type |-> "Except", Left |-> left, Right |-> right]

SelectCoreNode(relation) ==
  [Projections |-> <<>>,
   Relation    |-> relation,
   Source      |-> [Left |-> relation, Right |-> <<>>],
   Wheres      |-> <<>>,
   Groups      |-> <<>>,
   Having      |-> Nil]

SelectStatementNode(relation) ==
  [Cores      |-> <<SelectCoreNode(relation)>>,
   Orders     |-> <<>>,
   Limit      |-> Nil,
   Offset     |-> Nil,
   Combinator |-> Nil]

----------------------------------------------------------------------------
(* Table and Accessor (table.go).                                          *)

\* The relation a Table call creates.
TableRelation(name) == RelationNode(name)

\* Accessor without the type test: every argument taken for a column name.
AccessorAlwaysColumn(relation, name) ==
  AttributeNode([type |-> "Column",
                 Name |-> IF IsString(name) THEN name.Value ELSE name], relation)

\* The closure Table returns, called with name.
Accessor(relation, name) ==
  IF IsString(name)
    THEN AttributeNode(ColumnNode(name.Value), relation)
    ELSE AttributeNode(name, relation)

\* The closure itself as a value handed to InnerJoin / OuterJoin.
AccessorValue(relation) == [type |-> "Accessor", Relation |-> relation]

ManagerRef(m) == [type |-> "Manager", Id |-> m]

----------------------------------------------------------------------------
(* The methods of SelectManager, each as the change it makes to the core   *)
(* its Context points to, to the statement its Tree points to, or to the   *)
(* engine field.                                                           *)

\* The slice with every raw string replaced by a Literal, in call order.
Literals(items) ==
  [i \in 1..Len(items) |->
     IF IsString(items[i]) THEN LiteralNode(items[i]) ELSE items[i]]

\* ProjectCore that puts the new items in front of the list.
ProjectCorePrepends(core, projections) ==
  [core EXCEPT !.Projections = Literals(projections) \o @]

\* ProjectCore that drops a default star before it appends.
ProjectCoreDropsStar(core, projections) ==
  IF core.Projections = <<AttributeNode(StarNode, core.Relation)>>
    THEN [core EXCEPT !.Projections = Literals(projections)]
    ELSE [core EXCEPT !.Projections = @ \o Literals(projections)]

ProjectCore(core, projections) ==
  [core EXCEPT !.Projections = @ \o Literals(projections)]

\* WhereCore that skips an expression the list already holds.
WhereCoreDedupes(core, expr) ==
  LET node == GroupingNode(IF IsString(expr) THEN LiteralNode(expr) ELSE expr)
  IN  IF \E i \in 1..Len(core.Wheres) : core.Wheres[i] = node
        THEN core
        ELSE [core EXCEPT !.Wheres = Append(@, node)]

WhereCore(core, expr) ==
  [core EXCEPT !.Wheres =
     Append(@, GroupingNode(IF IsString(expr) THEN LiteralNode(expr) ELSE expr))]

OffsetStatement(stmt, skip) == [stmt EXCEPT !.Offset = OffsetNode(skip)]

\* LimitStatement that adds the argument to the limit already set.
LimitStatementAdds(stmt, take) ==
  [stmt EXCEPT !.Limit =
     IF @ = Nil THEN LimitNode(take) ELSE LimitNode(@.Expr + take)]

LimitStatement(stmt, take) == [stmt EXCEPT !.Limit = LimitNode(take)]

InnerJoinCore(core, table) ==
  CASE table.type = "Accessor" ->
         [core EXCEPT !.Source.Right = Append(@, InnerJoinNode(table.Relation, Nil))]
    [] table.type = "Relation" ->
         [core EXCEPT !.Source.Right = Append(@, InnerJoinNode(table, Nil))]
    [] OTHER -> core

\* OuterJoinCore as a copy of InnerJoinCore with the constructor not renamed.
OuterJoinCoreInner(core, table) ==
  CASE table.type = "Accessor" ->
         [core EXCEPT !.Source.Right = Append(@, InnerJoinNode(table.Relation, Nil))]
    [] table.type = "Relation" ->
         [core EXCEPT !.Source.Right = Append(@, InnerJoinNode(table, Nil))]
    [] OTHER -> core

OuterJoinCore(core, table) ==
  CASE table.type = "Accessor" ->
         [core EXCEPT !.Source.Right = Append(@, OuterJoinNode(table.Relation, Nil))]
    [] table.type = "Relation" ->
         [core EXCEPT !.Source.Right = Append(@, OuterJoinNode(table, Nil))]
    [] OTHER -> core

\* OnCore that sets the On of every join of the list.
OnCoreEveryJoin(core, expr) ==
  [core EXCEPT !.Source.Right =
     [i \in 1..Len(@) |-> [@[i] EXCEPT !.Right = OnNode(expr)]]]

\* OnCore that, with no join to attach to, appends one to carry the On.
OnCoreAppends(core, expr) ==
  LET joins == core.Source.Right
      n     == Len(joins)
  IN  IF n = 0
        THEN [core EXCEPT !.Source.Right = <<InnerJoinNode(core.Relation, OnNode(expr))>>]
        ELSE [core EXCEPT !.Source.Right[n].Right = OnNode(expr)]

OnCore(core, expr) ==
  LET joins == core.Source.Right
      n     == Len(joins)
  IN  IF n = 0
        THEN core
        ELSE CASE joins[n].type = "InnerJoin" ->
                    [core EXCEPT !.Source.Right[n].Right = OnNode(expr)]
               [] joins[n].type = "OuterJoin" ->
                    [core EXCEPT !.Source.Right[n].Right = OnNode(expr)]
               [] OTHER -> core

\* OrderStatement that puts the new expression in front of the list.
OrderStatementPrepends(stmt, expr) ==
  [stmt EXCEPT !.Orders = <<IF IsString(expr) THEN LiteralNode(expr) ELSE expr>> \o @]

OrderStatement(stmt, expr) ==
  [stmt EXCEPT !.Orders = Append(@, IF IsString(expr) THEN LiteralNode(expr) ELSE expr)]

GroupCore(core, groupings) ==
  [core EXCEPT !.Groups = @ \o Literals(groupings)]

\* HavingCore that keeps a clause already set.
HavingCoreKeepsFirst(core, expr) ==
  IF core.Having = Nil
    THEN [core EXCEPT !.Having =
            HavingNode(IF IsString(expr) THEN LiteralNode(expr) ELSE expr)]
    ELSE core

HavingCore(core, expr) ==
  [core EXCEPT !.Having = HavingNode(IF IsString(expr) THEN LiteralNode(expr) ELSE expr)]

\* UnionStatement that also starts a second core for the other operand.
UnionStatementAddsCore(stmt, self, other) ==
  [stmt EXCEPT !.Cores = Append(@, SelectCoreNode(stmt.Cores[1].Relation)),
               !.Combinator = UnionNode(self, other)]

\* self and other are the Tree pointers of the receiver and of the argument.
UnionStatement(stmt, self, other) ==
  [stmt EXCEPT !.Combinator = UnionNode(self, other)]

IntersectStatement(stmt, self, other) ==
  [stmt EXCEPT !.Combinator = IntersectNode(self, other)]

ExceptStatement(stmt, self, other) ==
  [stmt EXCEPT !.Combinator = ExceptNode(self, other)]

\* The statements one step along a combinator's operands.
Operands(trees, id) ==
  IF trees[id].Combinator = Nil
    THEN {}
    ELSE {trees[id].Combinator.Left, trees[id].Combinator.Right}

\* nil, as the value of the engine field.
NoEngine == "<nil>"

\* EngineField without the lookup in the registry.
EngineFieldUnchecked(registry, current, name) == name

EngineField(registry, current, name) ==
  IF name \in registry THEN name ELSE current

\* ToSqlCores without the test of the length: a star on every call.
ToSqlCoresEveryCall(stmt) ==
  LET inject(core) ==
        [core EXCEPT !.Projections =
           Append(core.Projections, AttributeNode(StarNode, core.Relation))]
  IN  [stmt EXCEPT !.Cores = [i \in 1..Len(stmt.Cores) |-> inject(stmt.Cores[i])]]

\* ToSqlCores that injects a bare star, not an attribute of the relation.
ToSqlCoresBareStar(stmt) ==
  LET inject(core) ==
        IF Len(core.Projections) = 0
          THEN [core EXCEPT !.Projections = Append(core.Projections, StarNode)]
          ELSE core
  IN  [stmt EXCEPT !.Cores = [i \in 1..Len(stmt.Cores) |-> inject(stmt.Cores[i])]]

\* The loop of ToSql over the receiver's own cores.
ToSqlCores(stmt) ==
  LET inject(core) ==
        IF Len(core.Projections) = 0
          THEN [core EXCEPT !.Projections =
                  Append(core.Projections, AttributeNode(StarNode, core.Relation))]
          ELSE core
  IN  [stmt EXCEPT !.Cores = [i \in 1..Len(stmt.Cores) |-> inject(stmt.Cores[i])]]

\* ToSqlEngine without the test for nil: the default replaces the selection.
ToSqlEngineAlwaysDefault(current) == "to_sql"

ToSqlEngine(current) == IF current = NoEngine THEN "to_sql" ELSE current

\* Selection: a new statement with one core; Context is its first core.
SelectionTree(relation) == SelectStatementNode(relation)

SelectionContext(m) == [tree |-> m, core |-> 1]

----------------------------------------------------------------------------
(* The visitor: statement -> each core -> ORDER BY / LIMIT / OFFSET ->     *)
(* combinator (left, keyword, right).  SQL text is a sequence of tokens.   *)

Digit == <<"0", "1", "2", "3", "4", "5", "6", "7", "8", "9">>

RECURSIVE Itoa(_)
Itoa(n) == IF n < 10 THEN <<Digit[n + 1]>> ELSE Itoa(n \div 10) \o <<Digit[(n % 10) + 1]>>

RECURSIVE VisitNode(_)
VisitNode(o) ==
  CASE o.type = "Literal"   -> <<o.Value>>
    [] o.type = "string"    -> <<o.Value>>
    [] o.type = "Column"    -> <<"\"", o.Name, "\"">>
    [] o.type = "Relation"  -> <<"\"", o.Name, "\"">>
    [] o.type = "Star"      -> <<"*">>
    [] o.type = "Attribute" -> VisitNode(o.Relation) \o <<".">> \o VisitNode(o.Name)
    [] o.type = "Grouping"  -> <<"(">> \o VisitNode(o.Expr) \o <<")">>
    [] o.type = "On"        -> <<"ON">> \o VisitNode(o.Expr)
    [] o.type = "Having"    -> <<"HAVING">> \o VisitNode(o.Expr)
    [] o.type = "Limit"     -> <<"LIMIT">> \o Itoa(o.Expr)
    [] o.type = "Offset"    -> <<"OFFSET">> \o Itoa(o.Expr)
    [] o.type = "InnerJoin" ->
         <<"INNER JOIN">> \o VisitNode(o.Left)
           \o (IF o.Right = Nil THEN <<>> ELSE VisitNode(o.Right))
    [] o.type = "OuterJoin" ->
         <<"LEFT OUTER JOIN">> \o VisitNode(o.Left)
           \o (IF o.Right = Nil THEN <<>> ELSE VisitNode(o.Right))
    [] OTHER -> <<>>

\* The nodes of a list, each rendered, with sep between two of them.
RECURSIVE VisitList(_, _)
VisitList(list, sep) ==
  IF Len(list) = 0 THEN <<>>
  ELSE IF Len(list) = 1 THEN VisitNode(list[1])
  ELSE VisitNode(list[1]) \o sep \o VisitList(Tail(list), sep)

VisitSelectCore(core) ==
  <<"SELECT">> \o VisitList(core.Projections, <<",">>)
    \o <<"FROM">> \o VisitNode(core.Source.Left)
    \o VisitList(core.Source.Right, <<>>)
    \o (IF Len(core.Wheres) = 0 THEN <<>>
        ELSE <<"WHERE">> \o VisitList(core.Wheres, <<"AND">>))
    \o (IF Len(core.Groups) = 0 THEN <<>>
        ELSE <<"GROUP BY">> \o VisitList(core.Groups, <<",">>))
    \o (IF core.Having = Nil THEN <<>> ELSE VisitNode(core.Having))

RECURSIVE VisitCores(_)
VisitCores(cores) ==
  IF Len(cores) = 0 THEN <<>> ELSE VisitSelectCore(cores[1]) \o VisitCores(Tail(cores))

\* The cores and the statement-level clauses, without the combinator.
VisitStatementClauses(stmt) ==
  VisitCores(stmt.Cores)
    \o (IF Len(stmt.Orders) = 0 THEN <<>>
        ELSE <<"ORDER BY">> \o VisitList(stmt.Orders, <<",">>))
    \o (IF stmt.Limit = Nil THEN <<>> ELSE VisitNode(stmt.Limit))
    \o (IF stmt.Offset = Nil THEN <<>> ELSE VisitNode(stmt.Offset))

Keyword(combinator) ==
  CASE combinator.type = "Union"     -> <<"UNION">>
    [] combinator.type = "Intersect" -> <<"INTERSECT">>
    [] combinator.type = "Except"    -> <<"EXCEPT">>

Overflow == [kind |-> "overflow", sql |-> <<>>]

\* The visit of statement id of heap trees while the statements of visiting
\* are being visited further up the call stack.  The visit is a function of
\* the node alone, so a visit of a statement within its own visit recurses
\* for ever: the goroutine's stack overflows and the process ends.
RECURSIVE VisitSelectStatement(_, _, _)
VisitSelectStatement(trees, id, visiting) ==
  IF id \in visiting THEN Overflow
  ELSE
    LET stmt  == trees[id]
        own   == VisitStatementClauses(stmt)
        left  == VisitSelectStatement(trees, stmt.Combinator.Left, visiting \cup {id})
        right == VisitSelectStatement(trees, stmt.Combinator.Right, visiting \cup {id})
    IN  IF stmt.Combinator = Nil THEN [kind |-> "ok", sql |-> own]
        ELSE IF left.kind = "overflow" \/ right.kind = "overflow" THEN Overflow
        ELSE [kind |-> "ok",
              sql  |-> own \o left.sql \o Keyword(stmt.Combinator) \o right.sql]

Accept(trees, id) == VisitSelectStatement(trees, id, {})

\* The last line of ToSql: the registry's entry for the key, asked to Accept
\* the tree.  A key without an entry yields the nil visitor, and the call of
\* a method of it panics.
ToSqlReturn(registry, key, trees, id) ==
  IF key \in registry THEN Accept(trees, id) ELSE [kind |-> "panic", sql |-> <<>>]

----------------------------------------------------------------------------
(* The calls a client makes.                                               *)

RelationOf(m) == RelationNode(IF m = 1 THEN "users" ELSE "posts")

\* Expressions handed to Where, On, Order, Having: a raw string and a node.
Exprs == {Str("x"), Accessor(RelationOf(1), Str("id"))}

\* Argument lists of the variadic Project and Group.
ItemLists == {<<Str("c")>>, <<Str("a"), Accessor(RelationOf(1), Str("id"))>>}

\* Arguments of InnerJoin / OuterJoin: an Accessor, a Relation, something else.
Tables == {AccessorValue(RelationOf(2)), RelationNode("tags"), Str("posts")}

Numbers == {5, 10}

EngineNames == {"to_sql", "mysql", "oracle"}

\* The registry with a visitor for the default key and for one dialect.
Registry == {"to_sql", "mysql"}

\* A registry that lacks the default key.
RegistryWithoutDefault == {"mysql"}

----------------------------------------------------------------------------
(* The librarian SelectStatement of statement.go.  A Go string is the       *)
(* sequence of its tokens, a slice a sequence, and a call returns a record  *)
(* of its kind, its value and its error.                                    *)

\* The table the statement selects from.
reference == "users"

\* The statement's accessor: the qualified column of a name.
a(name) ==
  IF name = "*"
    THEN <<"\"", reference, "\"", ".", "*">>
    ELSE <<"\"", reference, "\"", ".", "\"", name, "\"">>

\* An argument of dynamic type column.
Column(tokens) == [type |-> "column", Value |-> tokens]

\* A nil *sql.DB, and an open one.
NoSession == "<nil>"

Sessions == {NoSession, "db"}

\* A nil error, the error of a call without session, and a database error.
NoError == "<nil>"

NoSessionError == "NoSessionError"

SqlError == "sql error"

\* The zero value of the struct with its accessor and reference set.
ZeroStatement ==
  [projections |-> <<>>, filters |-> <<>>, joins |-> <<>>,
   session |-> NoSession, limit |-> 0]

\* What a call leaves behind: the statement and what the call returned.
Outcome(s, kind, value, err) ==
  [s |-> s, ret |-> [kind |-> kind, value |-> value, err |-> err]]

\* A chaining method returns the statement itself.
Chained == [kind |-> "self", value |-> Nil, err |-> NoError]

BadArgsPanic == [kind |-> "panic", value |-> Str("BadArgsError"), err |-> NoError]

NilStatementPanic == [kind |-> "panic", value |-> Str("nil pointer"), err |-> NoError]

MakePanic == [kind |-> "panic", value |-> Str("len out of range"), err |-> NoError]

IndexPanic == [kind |-> "panic", value |-> Str("index out of range"), err |-> NoError]

\* Select: the arguments are appended one by one, a string through the
\* accessor; an argument of another type panics after the ones before it
\* were appended.
RECURSIVE SelectStatementSelect(_, _)
SelectStatementSelect(s, c) ==
  IF c = <<>> THEN [s |-> s, ret |-> Chained]
  ELSE LET cc == Head(c)
       IN  IF cc.type = "column"
             THEN SelectStatementSelect(
                    [s EXCEPT !.projections = Append(@, cc.Value)], Tail(c))
           ELSE IF cc.type = "string"
             THEN SelectStatementSelect(
                    [s EXCEPT !.projections = Append(@, a(cc.Value))], Tail(c))
           ELSE [s |-> s, ret |-> BadArgsPanic]

SelectStatementWhere(s, e) == [s EXCEPT !.filters = Append(@, e)]

\* The six join methods differ in the keyword they put before the expression.
SelectStatementJoin(s, keyword, e) ==
  [s EXCEPT !.joins = Append(@, keyword \o e)]

SelectStatementLimit(s, l) == [s EXCEPT !.limit = l]

SelectStatementRun(s, session) == [s EXCEPT !.session = session]

\* What the database does with one prepared query: Prepare fails, Query
\* fails, Scan fails, or the query answers with a count (Count) or with that
\* many rows (First, Query).
Answers ==
  {[stage |-> "prepare", count |-> 0], [stage |-> "query", count |-> 0],
   [stage |-> "scan", count |-> 0], [stage |-> "ok", count |-> 0],
   [stage |-> "ok", count |-> 2]}

AnswerError(answer) == IF answer.stage = "ok" THEN NoError ELSE SqlError

\* Count: without session -1 and NoSessionError; with one the projections
\* become the single COUNT column and the database is asked.  A failed
\* Prepare leaves a nil statement whose deferred Close panics.
SelectStatementCount(s, answer) ==
  IF s.session = NoSession
    THEN Outcome(s, "pair", IntVal(-1), NoSessionError)
  ELSE LET counting ==
             [s EXCEPT !.projections = <<<<"COUNT(">> \o a("*") \o <<")">>>>]
       IN  IF answer.stage = "prepare"
             THEN [s |-> counting, ret |-> NilStatementPanic]
           ELSE IF answer.stage = "query"
             THEN Outcome(counting, "pair", IntVal(-1), SqlError)
           ELSE Outcome(counting, "pair", IntVal(answer.count),
                        AnswerError(answer))

\* First with the limit set before the session is looked at.
SelectStatementFirstLimitsFirst(s, answer) ==
  LET limited == SelectStatementLimit(s, 1)
  IN  IF s.session = NoSession
        THEN Outcome(limited, "pair", Nil, NoSessionError)
      ELSE IF answer.stage = "prepare"
        THEN [s |-> limited, ret |-> NilStatementPanic]
      ELSE IF answer.stage = "query"
        THEN Outcome(limited, "pair", Nil, SqlError)
      ELSE Outcome(limited, "pair", [type |-> "result"], AnswerError(answer))

\* First: without session nil and NoSessionError; with one the limit becomes
\* 1 and the database is asked.  Query on the nil statement of a failed
\* Prepare panics.
SelectStatementFirst(s, answer) ==
  IF s.session = NoSession
    THEN Outcome(s, "pair", Nil, NoSessionError)
  ELSE LET limited == SelectStatementLimit(s, 1)
       IN  IF answer.stage = "prepare"
             THEN [s |-> limited, ret |-> NilStatementPanic]
           ELSE IF answer.stage = "query"
             THEN Outcome(limited, "pair", Nil, SqlError)
           ELSE Outcome(limited, "pair", [type |-> "result"],
                        AnswerError(answer))

\* clone: a new statement with the same fields.
SelectStatementClone(s) ==
  [projections |-> s.projections, filters |-> s.filters, joins |-> s.joins,
   session |-> s.session, limit |-> s.limit]

\* Query: without session nil and NoSessionError.  With one, a limit of 0 is
\* replaced by the count of a clone (its error dropped, its panic not); then
\* the database is asked, a results slice of limit entries is made, which
\* panics when the limit is negative, and the rows are stored in it, which
\* panics when there are more rows than entries.
SelectStatementQuery(s, counted, answer) ==
  IF s.session = NoSession
    THEN Outcome(s, "pair", Nil, NoSessionError)
  ELSE LET count == SelectStatementCount(SelectStatementClone(s), counted)
           asked == s.limit = 0
           limited ==
             IF asked /\ count.ret.kind # "panic"
               THEN SelectStatementLimit(s, count.ret.value.Value)
               ELSE s
       IN  IF asked /\ count.ret.kind = "panic"
             THEN [s |-> s, ret |-> count.ret]
           ELSE IF answer.stage = "prepare"
             THEN [s |-> limited, ret |-> NilStatementPanic]
           ELSE IF answer.stage = "query"
             THEN Outcome(limited, "pair", Nil, SqlError)
           ELSE IF limited.limit < 0
             THEN [s |-> limited, ret |-> MakePanic]
           ELSE IF answer.count > limited.limit
             THEN [s |-> limited, ret |-> IndexPanic]
           ELSE Outcome(limited, "pair",
                        [type |-> "results", Len |-> limited.limit],
                        AnswerError(answer))

----------------------------------------------------------------------------
Self == [kind |-> "self", sql |-> <<>>]

Running == nops < MaxOps /\ result.kind # "overflow"

NoCall == <<[type |-> "none"]>>

Call(m, op, args) ==
  /\ last' = [m |-> m, op |-> op, args |-> args,
              before |-> IF last.m = m /\ last.op = op THEN last.args ELSE NoCall]
  /\ nops' = nops + 1
  /\ UNCHANGED <<statement, returned>>

SetCore(m, core) ==
  Tree' = [Tree EXCEPT ![Context[m].tree].Cores[Context[m].core] = core]

\* The core a Context pointer designates.
CoreAt(trees, ptr) == trees[ptr.tree].Cores[ptr.core]

Current(m) == CoreAt(Tree, Context[m])

\* Two managers fresh from Selection, no call made yet.
Selections ==
  /\ Tree = [m \in Managers |-> SelectionTree(RelationOf(m))]
  /\ Context = [m \in Managers |-> SelectionContext(m)]
  /\ engine = [m \in Managers |-> NoEngine]
  /\ result = Self
  /\ last = [m |-> 0, op |-> "Selection", args |-> <<>>, before |-> NoCall]
  /\ nops = 0
  /\ statement = ZeroStatement
  /\ returned = Chained

Init == VISITORS = Registry /\ Selections

InitWithoutDefault == VISITORS = RegistryWithoutDefault /\ Selections

Project(m, projections) ==
  /\ Running
  /\ SetCore(m, ProjectCore(Current(m), projections))
  /\ result' = Self
  /\ Call(m, "Project", projections)
  /\ UNCHANGED <<VISITORS, Context, engine>>

Where(m, expr) ==
  /\ Running
  /\ SetCore(m, WhereCore(Current(m), expr))
  /\ result' = Self
  /\ Call(m, "Where", <<expr>>)
  /\ UNCHANGED <<VISITORS, Context, engine>>

Offset(m, skip) ==
  /\ Running
  /\ Tree' = [Tree EXCEPT ![m] = OffsetStatement(@, skip)]
  /\ result' = Self
  /\ Call(m, "Offset", <<IntVal(skip)>>)
  /\ UNCHANGED <<VISITORS, Context, engine>>

Limit(m, take) ==
  /\ Running
  /\ Tree' = [Tree EXCEPT ![m] = LimitStatement(@, take)]
  /\ result' = Self
  /\ Call(m, "Limit", <<IntVal(take)>>)
  /\ UNCHANGED <<VISITORS, Context, engine>>

InnerJoin(m, table) ==
  /\ Running
  /\ SetCore(m, InnerJoinCore(Current(m), table))
  /\ result' = Self
  /\ Call(m, "InnerJoin", <<table>>)
  /\ UNCHANGED <<VISITORS, Context, engine>>

OuterJoin(m, table) ==
  /\ Running
  /\ SetCore(m, OuterJoinCore(Current(m), table))
  /\ result' = Self
  /\ Call(m, "OuterJoin", <<table>>)
  /\ UNCHANGED <<VISITORS, Context, engine>>

On(m, expr) ==
  /\ Running
  /\ SetCore(m, OnCore(Current(m), expr))
  /\ result' = Self
  /\ Call(m, "On", <<expr>>)
  /\ UNCHANGED <<VISITORS, Context, engine>>

Order(m, expr) ==
  /\ Running
  /\ Tree' = [Tree EXCEPT ![m] = OrderStatement(@, expr)]
  /\ result' = Self
  /\ Call(m, "Order", <<expr>>)
  /\ UNCHANGED <<VISITORS, Context, engine>>

Group(m, groupings) ==
  /\ Running
  /\ SetCore(m, GroupCore(Current(m), groupings))
  /\ result' = Self
  /\ Call(m, "Group", groupings)
  /\ UNCHANGED <<VISITORS, Context, engine>>

Having(m, expr) ==
  /\ Running
  /\ SetCore(m, HavingCore(Current(m), expr))
  /\ result' = Self
  /\ Call(m, "Having", <<expr>>)
  /\ UNCHANGED <<VISITORS, Context, engine>>

Union(m, manager) ==
  /\ Running
  /\ Tree' = [Tree EXCEPT ![m] = UnionStatement(@, m, manager)]
  /\ result' = Self
  /\ Call(m, "Union", <<ManagerRef(manager)>>)
  /\ UNCHANGED <<VISITORS, Context, engine>>

Intersect(m, manager) ==
  /\ Running
  /\ Tree' = [Tree EXCEPT ![m] = IntersectStatement(@, m, manager)]
  /\ result' = Self
  /\ Call(m, "Intersect", <<ManagerRef(manager)>>)
  /\ UNCHANGED <<VISITORS, Context, engine>>

Except(m, manager) ==
  /\ Running
  /\ Tree' = [Tree EXCEPT ![m] = ExceptStatement(@, m, manager)]
  /\ result' = Self
  /\ Call(m, "Except", <<ManagerRef(manager)>>)
  /\ UNCHANGED <<VISITORS, Context, engine>>

Engine(m, name) ==
  /\ Running
  /\ engine' = [engine EXCEPT ![m] = EngineField(VISITORS, @, name)]
  /\ result' = Self
  /\ Call(m, "Engine", <<Str(name)>>)
  /\ UNCHANGED <<VISITORS, Tree, Context>>

\* ToSql that injects the default projection into the cores of both
\* operands of its combinator as well.
ToSqlOperandsToo(m) ==
  /\ Running
  /\ Tree' = [k \in Managers |->
                IF k = m \/ k \in Operands(Tree, m) THEN ToSqlCores(Tree[k]) ELSE Tree[k]]
  /\ engine' = [engine EXCEPT ![m] = ToSqlEngine(@)]
  /\ result' = ToSqlReturn(VISITORS, engine'[m], Tree', m)
  /\ Call(m, "ToSql", <<>>)
  /\ UNCHANGED <<VISITORS, Context>>

ToSql(m) ==
  /\ Running
  /\ Tree' = [Tree EXCEPT ![m] = ToSqlCores(@)]
  /\ engine' = [engine EXCEPT ![m] = ToSqlEngine(@)]
  /\ result' = ToSqlReturn(VISITORS, engine'[m], Tree', m)
  /\ Call(m, "ToSql", <<>>)
  /\ UNCHANGED <<VISITORS, Context>>

Next ==
  \/ \E m \in Managers, projections \in ItemLists : Project(m, projections)
  \/ \E m \in Managers, expr \in Exprs : Where(m, expr)
  \/ \E m \in Managers, skip \in Numbers : Offset(m, skip)
  \/ \E m \in Managers, take \in Numbers : Limit(m, take)
  \/ \E m \in Managers, table \in Tables : InnerJoin(m, table)
  \/ \E m \in Managers, table \in Tables : OuterJoin(m, table)
  \/ \E m \in Managers, expr \in Exprs : On(m, expr)
  \/ \E m \in Managers, expr \in Exprs : Order(m, expr)
  \/ \E m \in Managers, groupings \in ItemLists : Group(m, groupings)
  \/ \E m \in Managers, expr \in Exprs : Having(m, expr)
  \/ \E m \in Managers, manager \in Managers : Union(m, manager)
  \/ \E m \in Managers, manager \in Managers : Intersect(m, manager)
  \/ \E m \in Managers, manager \in Managers : Except(m, manager)
  \/ \E m \in Managers, name \in EngineNames : Engine(m, name)
  \/ \E m \in Managers : ToSql(m)

Spec == Init /\ [][Next]_vars

\* Table names and Accessor arguments: a string, a Star marker, an Attribute.
TableNames == {"users", "tags"}

AccessorArgs == {Str("id"), StarNode, Accessor(TableRelation("users"), Str("id"))}

\* Table(table)(name): the attribute is what the call returns.
CallAccessor(table, name) ==
  /\ Running
  /\ result' = [kind |-> "attribute", sql |-> <<>>,
                node |-> Accessor(TableRelation(table), name)]
  /\ Call(0, "Accessor", <<Str(table), name>>)
  /\ UNCHANGED <<VISITORS, Tree, Context, engine>>

NextWithAccessor ==
  \/ Next
  \/ \E table \in TableNames, name \in AccessorArgs : CallAccessor(table, name)

\* The builder calls interleaved with calls of Accessors.
SpecWithAccessor == Init /\ [][NextWithAccessor]_vars

\* The same program run with a registry that lacks the default key.
SpecWithoutDefault == InitWithoutDefault /\ [][Next]_vars

----------------------------------------------------------------------------
(* The calls of the librarian SelectStatement.                              *)

\* A panic ends the program.
Chaining == nops < MaxOps /\ returned.kind # "panic"

StatementCall(op, args, outcome) ==
  /\ Chaining
  /\ statement' = outcome.s
  /\ returned' = outcome.ret
  /\ last' = [m |-> 0, op |-> op, args |-> args, before |-> NoCall]
  /\ nops' = nops + 1
  /\ UNCHANGED <<VISITORS, Tree, Context, engine, result>>

\* Arguments of Select: strings, a column, and a value of another type.
SelectArgs ==
  {<<Str("id")>>, <<Column(a("email")), Str("name")>>,
   <<Str("id"), IntVal(3)>>}

\* Expressions, as the strings they are.
Expressions == {<<"a", "=", "1">>, <<"b", "=", "2">>}

JoinKeywords ==
  [Join |-> <<"JOIN">>, InnerJoin |-> <<"INNER JOIN">>,
   OuterJoin |-> <<"OUTER JOIN">>, LeftJoin |-> <<"LEFT JOIN">>,
   RightJoin |-> <<"RIGHT JOIN">>, FullJoin |-> <<"FULL JOIN">>]

Select(c) == StatementCall("Select", c, SelectStatementSelect(statement, c))

Filter(e) ==
  StatementCall("Where", <<e>>,
                [s |-> SelectStatementWhere(statement, e), ret |-> Chained])

Join(method, e) ==
  StatementCall(method, <<e>>,
                [s |-> SelectStatementJoin(statement, JoinKeywords[method], e),
                 ret |-> Chained])

LimitTo(l) ==
  StatementCall("Limit", <<l>>,
                [s |-> SelectStatementLimit(statement, l), ret |-> Chained])

Run(session) ==
  StatementCall("Run", <<session>>,
                [s |-> SelectStatementRun(statement, session), ret |-> Chained])

Count(answer) ==
  StatementCall("Count", <<>>, SelectStatementCount(statement, answer))

First(answer) ==
  StatementCall("First", <<>>, SelectStatementFirst(statement, answer))

Query(counted, answer) ==
  StatementCall("Query", <<>>, SelectStatementQuery(statement, counted, answer))

NextLibrarian ==
  \/ \E c \in SelectArgs : Select(c)
  \/ \E e \in Expressions : Filter(e)
  \/ \E method \in DOMAIN JoinKeywords : Join(method, <<"posts">>)
  \/ \E l \in Numbers : LimitTo(l)
  \/ \E session \in Sessions : Run(session)
  \/ \E answer \in Answers : Count(answer)
  \/ \E answer \in Answers : First(answer)
  \/ \E counted \in Answers, answer \in Answers : Query(counted, answer)

\* The librarian statement built and run on its own.
SpecLibrarian == Init /\ [][NextLibrarian]_vars

----------------------------------------------------------------------------
(* Properties.  A step with last'.op = X is a call of method X by manager  *)
(* last'.m with arguments last'.args; the unprimed variables are the state *)
(* before the call and the primed ones the state after it.                 *)

\* The statements reachable from those of seen along combinator operands.
RECURSIVE ReachableFrom(_, _)
ReachableFrom(trees, seen) ==
  LET more == seen \cup UNION {Operands(trees, id) : id \in seen}
  IN  IF more = seen THEN seen ELSE ReachableFrom(trees, more)

StarOf(core) == AttributeNode(StarNode, core.Relation)

\* C1: two consecutive ToSql calls of one manager, with no other call in
\* between, return the same value.
ToSqlTwiceSame ==
  [][(last.op = "ToSql" /\ last'.op = "ToSql" /\ last'.m = last.m)
       => result' = result]_vars

\* C1 witness: the second of two consecutive ToSql calls has returned SQL
\* for a manager whose only projection is the star the first call injected.
ToSqlTwiceSameWitness ==
  /\ last.op = "ToSql"
  /\ last.before = <<>>
  /\ result.kind = "ok"
  /\ Len(result.sql) > 0
  /\ Tree[last.m].Cores[1].Projections = <<StarOf(Tree[last.m].Cores[1])>>

\* C2: a.ToSql() after a.Union(b) (Intersect, Except), b a plain statement
\* other than a and the engine registered: the call returns a's clauses
\* once, the keyword, and b's clauses once.
CombinatorRoundTrip ==
  (/\ last.op = "ToSql"
   /\ engine[last.m] \in VISITORS
   /\ Tree[last.m].Combinator # Nil
   /\ Tree[last.m].Combinator.Right # last.m
   /\ Tree[Tree[last.m].Combinator.Right].Combinator = Nil)
  => /\ result.kind = "ok"
     /\ result.sql = VisitStatementClauses(Tree[last.m])
                       \o Keyword(Tree[last.m].Combinator)
                       \o VisitStatementClauses(Tree[Tree[last.m].Combinator.Right])

\* C3: a ToSql call that looked up a key without a visitor returned an
\* error value.
UnregisteredEngineIsError ==
  (last.op = "ToSql" /\ engine[last.m] \notin VISITORS) => result.kind = "error"

\* C4: when ToSql has handed the tree to a visitor, every core of every
\* statement reachable from the tree has a projection.
EveryReachableCoreProjected ==
  (last.op = "ToSql" /\ engine[last.m] \in VISITORS)
  => \A id \in ReachableFrom(Tree, {last.m}) :
       \A i \in 1..Len(Tree[id].Cores) : Len(Tree[id].Cores[i].Projections) > 0

\* C5 as stated: a ToSql call leaves the trees and the engine selections as
\* they were.
ToSqlChangesNothing ==
  [][last'.op = "ToSql" => (Tree' = Tree /\ engine' = engine)]_vars

\* C5 amended: a ToSql call of manager m changes at most the Projections of
\* m's own cores that were empty, which become the star of the core's
\* relation, and m's engine when it was unset, which becomes "to_sql".
ToSqlChangesOnlyDefaults ==
  [][last'.op = "ToSql" =>
       LET m == last'.m
       IN  /\ \A k \in Managers \ {m} : Tree'[k] = Tree[k] /\ engine'[k] = engine[k]
           /\ Context' = Context
           /\ VISITORS' = VISITORS
           /\ engine'[m] = IF engine[m] = NoEngine THEN "to_sql" ELSE engine[m]
           /\ Tree'[m].Orders = Tree[m].Orders
           /\ Tree'[m].Limit = Tree[m].Limit
           /\ Tree'[m].Offset = Tree[m].Offset
           /\ Tree'[m].Combinator = Tree[m].Combinator
           /\ Len(Tree'[m].Cores) = Len(Tree[m].Cores)
           /\ \A i \in 1..Len(Tree[m].Cores) :
                LET old == Tree[m].Cores[i]
                IN  Tree'[m].Cores[i] =
                      [old EXCEPT !.Projections =
                         IF old.Projections = <<>> THEN <<StarOf(old)>> ELSE @]
  ]_vars

\* C5 witness: a ToSql call has injected the star and the default engine
\* into a manager that holds a filter and a selected-by-default engine.
ToSqlChangesOnlyDefaultsWitness ==
  /\ last.op = "ToSql"
  /\ engine[last.m] = "to_sql"
  /\ Tree[last.m].Cores[1].Projections = <<StarOf(Tree[last.m].Cores[1])>>
  /\ Len(Tree[last.m].Cores[1].Wheres) > 0
  /\ Tree[last.m].Limit # Nil

\* The join list of the core manager m's Context designates, in heap trees.
JoinsOf(trees, m) == CoreAt(trees, Context[m]).Source.Right

\* C6: an On(expr) call with a non-empty join list leaves the last join
\* carrying On(expr) and every earlier join with the On slot it had.
OnAttachesToLastJoin ==
  [][last'.op = "On" =>
       LET m   == last'.m
           old == JoinsOf(Tree, m)
           new == JoinsOf(Tree', m)
           n   == Len(old)
       IN  n > 0 => /\ Len(new) = n
                    /\ new[n].Right = OnNode(last'.args[1])
                    /\ \A i \in 1..(n - 1) : new[i].Right = old[i].Right
  ]_vars

\* C6 witness: after two joins and an On, the second join carries the On
\* and the first has none.
OnAttachesToLastJoinWitness ==
  /\ last.op = "On"
  /\ Len(JoinsOf(Tree, last.m)) = 2
  /\ JoinsOf(Tree, last.m)[1].Right = Nil
  /\ JoinsOf(Tree, last.m)[2].Right = OnNode(last.args[1])

\* C7: an On call changes nothing but the Right slot of the last join: no
\* join is appended or removed, and with no join nothing changes at all.
OnChangesOnlyLastRight ==
  [][last'.op = "On" =>
       LET m   == last'.m
           ptr == Context[m]
           n   == Len(JoinsOf(Tree, m))
       IN  /\ engine' = engine
           /\ Context' = Context
           /\ VISITORS' = VISITORS
           /\ n = 0 => Tree' = Tree
           /\ n > 0 =>
                Tree' = [Tree EXCEPT
                           ![ptr.tree].Cores[ptr.core].Source.Right[n].Right =
                              JoinsOf(Tree', m)[n].Right]
  ]_vars

\* C7 witness: On(e1) then On(e2), e1 # e2, with no call in between, have
\* left a single join, which carries On(e2).
OnChangesOnlyLastRightWitness ==
  /\ last.op = "On"
  /\ last.before # NoCall
  /\ last.before # last.args
  /\ Len(JoinsOf(Tree, last.m)) = 1
  /\ JoinsOf(Tree, last.m)[1].Right = OnNode(last.args[1])

EngineSelectsRegisteredOnly ==
  [][last'.op = "Engine" =>
       LET m    == last'.m
           name == last'.args[1].Value
       IN  /\ Tree' = Tree
           /\ Context' = Context
           /\ VISITORS' = VISITORS
           /\ engine' = IF name \in VISITORS THEN [engine EXCEPT ![m] = name] ELSE engine
           /\ engine'[m] # engine[m] => engine'[m] \in VISITORS
  ]_vars

\* C9 witness: an Engine call with an unregistered name has left the
\* selection made by an earlier call.
EngineSelectsRegisteredOnlyWitness ==
  /\ last.op = "Engine"
  /\ last.args[1].Value \notin VISITORS
  /\ engine[last.m] \in VISITORS
  /\ engine[last.m] # last.args[1].Value

\* C10: a Limit(n) call sets the statement's Limit to n and leaves its
\* Offset, an Offset(n) call sets Offset to n and leaves Limit, and no other
\* call changes either; so each holds the argument of the most recent call.
LimitOffsetReplace ==
  [][\A m \in Managers :
       /\ (last'.m = m /\ last'.op = "Limit")
            => Tree'[m].Limit = LimitNode(last'.args[1].Value)
       /\ (last'.m = m /\ last'.op = "Offset")
            => Tree'[m].Offset = OffsetNode(last'.args[1].Value)
       /\ ~(last'.m = m /\ last'.op = "Limit") => Tree'[m].Limit = Tree[m].Limit
       /\ ~(last'.m = m /\ last'.op = "Offset") => Tree'[m].Offset = Tree[m].Offset
  ]_vars

\* C10 witness: Limit(5) then Limit(10) on a statement with an Offset have
\* left Limit 10 and the Offset.
LimitOffsetReplaceWitness ==
  /\ last.op = "Limit"
  /\ last.before = <<IntVal(5)>>
  /\ last.args = <<IntVal(10)>>
  /\ Tree[last.m].Limit = LimitNode(10)
  /\ Tree[last.m].Offset # Nil

\* An argument as the tree stores it: a raw string as a Literal of its text,
\* anything else as it is.
Stored(x) == IF x.type = "string" THEN [type |-> "Literal", Value |-> x.Value] ELSE x

\* The SQL of a statement over relation name with the default projection
\* and no other clause.
DefaultSql(name) ==
  <<"SELECT", "\"", name, "\"", ".", "*", "FROM", "\"", name, "\"">>

\* C11: a Project call appends its arguments, raw strings as Literals, in
\* call order at the end of the current core's Projections, and no call but
\* Project and ToSql changes any Projections; so without a ToSql the list is
\* the concatenation of the Project arguments.
ProjectAppendsInOrder ==
  [][\A m \in Managers :
       LET old == CoreAt(Tree, Context[m]).Projections
           new == CoreAt(Tree', Context[m]).Projections
       IN  /\ (last'.m = m /\ last'.op = "Project") =>
                /\ Len(new) = Len(old) + Len(last'.args)
                /\ \A i \in 1..Len(old) : new[i] = old[i]
                /\ \A i \in 1..Len(last'.args) : new[Len(old) + i] = Stored(last'.args[i])
           /\ ~(last'.m = m /\ last'.op \in {"Project", "ToSql"}) => new = old
  ]_vars

\* C11 witness: Project of two items then Project of "c" have left the
\* three of them, in that order.
ProjectAppendsInOrderWitness ==
  /\ last.op = "Project"
  /\ Len(last.before) = 2
  /\ last.args = <<Str("c")>>
  /\ Tree[last.m].Cores[1].Projections =
       <<Stored(last.before[1]), Stored(last.before[2]), LiteralNode(Str("c"))>>

\* C12: no call but Project and ToSql changes a Projections list, so a list
\* never projected stays empty; ToSql turns an empty list of the receiver
\* into the one star of the core's relation and leaves a non-empty list, and
\* SQL it returns for a list that was empty starts SELECT "R".* FROM "R".
EmptyProjectionDefault ==
  [][\A m \in Managers :
       LET core == CoreAt(Tree, Context[m])
           old  == core.Projections
           new  == CoreAt(Tree', Context[m]).Projections
           star == [type |-> "Attribute", Name |-> [type |-> "Star"],
                    Relation |-> core.Relation]
       IN  /\ ~(last'.m = m /\ last'.op \in {"Project", "ToSql"}) => new = old
           /\ (last'.m = m /\ last'.op = "ToSql") =>
                /\ new = IF old = <<>> THEN <<star>> ELSE old
                /\ (old = <<>> /\ result'.kind = "ok") =>
                     /\ Len(result'.sql) >= 10
                     /\ SubSeq(result'.sql, 1, 10) = DefaultSql(core.Relation.Name)
  ]_vars

\* C12 witness: the second of two ToSql calls in a row on a manager never
\* projected has returned exactly the default SQL, and the list holds one
\* star.
EmptyProjectionDefaultWitness ==
  /\ last.op = "ToSql"
  /\ last.before = <<>>
  /\ result.kind = "ok"
  /\ result.sql = DefaultSql(RelationOf(last.m).Name)
  /\ Len(Tree[last.m].Cores[1].Projections) = 1

\* C13: a Having call sets the current core's Having to its argument, a raw
\* string as a Literal, and changes nothing else; no other call changes a
\* Having.  So the core holds the argument of the most recent Having call.
HavingReplaces ==
  [][\A m \in Managers :
       LET ptr == Context[m]
       IN  /\ (last'.m = m /\ last'.op = "Having") =>
                /\ Tree' = [Tree EXCEPT ![ptr.tree].Cores[ptr.core].Having =
                              [type |-> "Having", Expr |-> Stored(last'.args[1])]]
                /\ engine' = engine
                /\ Context' = Context
           /\ ~(last'.m = m /\ last'.op = "Having") =>
                CoreAt(Tree', ptr).Having = CoreAt(Tree, ptr).Having
  ]_vars

\* C13 witness: Having(e1) then Having(e2), e1 # e2, have left Having(e2).
HavingReplacesWitness ==
  /\ last.op = "Having"
  /\ last.before # NoCall
  /\ last.before # last.args
  /\ Tree[last.m].Cores[1].Having = HavingNode(Stored(last.args[1]))

\* C14: a Where call appends one Grouping of its argument, a raw string as
\* a Literal, at the end of the current core's Wheres, whatever the list
\* holds, and no other call changes a Wheres list.
WhereAppendsOne ==
  [][\A m \in Managers :
       LET old == CoreAt(Tree, Context[m]).Wheres
           new == CoreAt(Tree', Context[m]).Wheres
       IN  /\ (last'.m = m /\ last'.op = "Where") =>
                new = Append(old, [type |-> "Grouping", Expr |-> Stored(last'.args[1])])
           /\ ~(last'.m = m /\ last'.op = "Where") => new = old
  ]_vars

\* C14 witness: three Where calls, the last two with the same expression,
\* have left three entries, the last two equal.
WhereAppendsOneWitness ==
  /\ last.op = "Where"
  /\ last.before = last.args
  /\ Len(Tree[last.m].Cores[1].Wheres) = 3
  /\ Tree[last.m].Cores[1].Wheres[2] = Tree[last.m].Cores[1].Wheres[3]

\* C15: a call of the Accessor of Table(t) returns Attribute(Column(s), R)
\* for a string s and Attribute(x, R) for any other x, R the relation named
\* t, and changes nothing; so the value depends on the argument alone,
\* whatever the builders did before.
AccessorIsFunction ==
  [][last'.op = "Accessor" =>
       LET x == last'.args[2]
           R == [type |-> "Relation", Name |-> last'.args[1].Value]
       IN  /\ result'.kind = "attribute"
           /\ result'.node =
                IF x.type = "string"
                  THEN [type |-> "Attribute", Relation |-> R,
                        Name |-> [type |-> "Column", Name |-> x.Value]]
                  ELSE [type |-> "Attribute", Relation |-> R, Name |-> x]
           /\ Tree' = Tree
           /\ engine' = engine
           /\ Context' = Context
           /\ VISITORS' = VISITORS
  ]_vars

\* C15 witness: after a builder call, two calls in a row of an Accessor with
\* the same Attribute as argument; the second has returned an Attribute
\* that wraps the argument as it is.
AccessorIsFunctionWitness ==
  /\ last.op = "Accessor"
  /\ last.before = last.args
  /\ last.args[2].type = "Attribute"
  /\ result.node.Name = last.args[2]
  /\ \E m \in Managers : Len(Tree[m].Cores[1].Wheres) > 0

\* C16: every manager's statement holds exactly one core, bound to the
\* relation the manager was created over, and the manager's Context
\* designates that core of its own tree.
SingleCurrentCore ==
  \A m \in Managers :
    /\ Len(Tree[m].Cores) = 1
    /\ Tree[m].Cores[1].Relation = RelationOf(m)
    /\ Tree[m].Cores[1].Source.Left = RelationOf(m)
    /\ Context[m].tree = m
    /\ Context[m].core = 1

\* C16 witness: a manager that has set a combinator, projected and rendered
\* still has its one core as the current one.
SingleCurrentCoreWitness ==
  /\ last.op = "ToSql"
  /\ Tree[last.m].Combinator # Nil
  /\ Len(Tree[last.m].Cores) = 1
  /\ Len(Tree[last.m].Cores[1].Projections) = 2
  /\ Context[last.m] = [tree |-> last.m, core |-> 1]

\* The number of combinator operand slots that hold statement id.
ParentSlots(trees, id) ==
  Cardinality({<<m, side>> \in Managers \X {"Left", "Right"} :
                 /\ trees[m].Combinator # Nil
                 /\ trees[m].Combinator[side] = id})

\* C17: no statement is reachable from itself along combinator operands,
\* and no statement sits in more than one operand slot.
StatementsFormTree ==
  \A m \in Managers :
    /\ m \notin ReachableFrom(Tree, Operands(Tree, m))
    /\ ParentSlots(Tree, m) <= 1

CoreMethods == {"Project", "Where", "Group", "Having", "InnerJoin", "OuterJoin", "On"}

StatementMethods == {"Order", "Limit", "Offset", "Union", "Intersect", "Except"}

\* C18: Union, Intersect and Except put the argument's own statement, by
\* reference, in the right operand slot, and no call of a manager, ToSql
\* included, changes the statement or the engine of another manager.
OperandsAreNeighbours ==
  [][\A m \in Managers :
       last'.m = m =>
         /\ \A k \in Managers \ {m} : Tree'[k] = Tree[k] /\ engine'[k] = engine[k]
         /\ last'.op \in {"Union", "Intersect", "Except"} =>
              /\ Tree'[m].Combinator.type = last'.op
              /\ Tree'[m].Combinator.Right = last'.args[1].Id
  ]_vars

\* C18 witness: a.ToSql() after a.Union(b) has returned or failed with b's
\* projections still empty and b's engine still unset.
OperandsAreNeighboursWitness ==
  /\ last.op = "ToSql"
  /\ Tree[last.m].Combinator # Nil
  /\ Tree[last.m].Combinator.Right # last.m
  /\ Tree[last.m].Cores[1].Projections # <<>>
  /\ Tree[Tree[last.m].Combinator.Right].Cores[1].Projections = <<>>
  /\ engine[Tree[last.m].Combinator.Right] = NoEngine

RenderThenProjectKeepsStar ==
  [][\A m \in Managers :
       LET core == CoreAt(Tree, Context[m])
           old  == core.Projections
           new  == CoreAt(Tree', Context[m]).Projections
           star == [type |-> "Attribute", Name |-> [type |-> "Star"],
                    Relation |-> core.Relation]
           items(args) == [i \in 1..Len(args) |-> Stored(args[i])]
       IN  /\ (last.m = m /\ last.op = "ToSql" /\ old = <<star>>
                 /\ last'.m = m /\ last'.op = "Project") =>
                new = <<star>> \o items(last'.args)
           /\ (last.m = m /\ last.op = "Project" /\ last'.m = m /\ last'.op = "ToSql") =>
                /\ new = old
                /\ old = items(last.args) => \A i \in 1..Len(new) : new[i] # star
                /\ (old = <<star>> \o items(last.args) /\ result'.kind = "ok") =>
                     SubSeq(result'.sql, 1, 7 + Len(VisitNode(old[2]))) =
                       <<"SELECT", "\"", core.Relation.Name, "\"", ".", "*", ",">>
                         \o VisitNode(old[2])
  ]_vars

\* C20 witness: ToSql, Project("c"), ToSql on one manager have rendered the
\* star followed by c.
RenderThenProjectKeepsStarWitness ==
  /\ last.op = "ToSql"
  /\ result.kind = "ok"
  /\ Tree[last.m].Cores[1].Projections = <<StarOf(Tree[last.m].Cores[1]), LiteralNode(Str("c"))>>
  /\ result.sql = <<"SELECT", "\"", RelationOf(last.m).Name, "\"", ".", "*", ",", "c",
                    "FROM", "\"", RelationOf(last.m).Name, "\"">>

\* C21: a call of Count, First or Query of the librarian SelectStatement
\* while its session is nil returns NoSessionError and leaves the statement's
\* projections, filters, joins and limit as they were.
NoSessionNoChange ==
  [][(last'.op \in {"Count", "First", "Query"} /\ statement.session = NoSession)
       => /\ returned'.err = NoSessionError
          /\ statement'.projections = statement.projections
          /\ statement'.filters = statement.filters
          /\ statement'.joins = statement.joins
          /\ statement'.limit = statement.limit]_vars

\* First was called without session on a statement with a projection and a
\* limit of 5, and the limit is still 5.
NoSessionNoChangeWitness ==
  /\ last.op = "First"
  /\ statement.session = NoSession
  /\ returned.err = NoSessionError
  /\ statement.limit = 5
  /\ statement.projections = <<a("id")>>

====
